---- MODULE Spec2Model ----
(***************************************************************************)
(* The live quiz session engine of the LMS server: the QuizSession,        *)
(* QuizQuestion and QuizSubmission collections and the request handlers    *)
(* of server/routes/quiz.js.  Every handler is an async function; it is    *)
(* cut into one action per database round trip (per `await`), so that the  *)
(* handlers of concurrent requests interleave as they do on the Node event *)
(* loop.  Time is in whole seconds.                                        *)
(*                                                                         *)
(* Documents are Mongoose documents: save() writes the paths whose value   *)
(* was changed since the document was loaded (a path assigned the value it *)
(* already had is not modified and is not written), and an array push is   *)
(* written as an append to the stored array.                               *)
(***************************************************************************)
EXTENDS Integers, Sequences, FiniteSets, TLC

(* ---------------------------- bounds ----------------------------------- *)

MaxRequests == 3        \* requests served in one behaviour
MaxTicks == 2           \* clock advances in one behaviour

MaxInFlight == 2        \* requests in flight at the same time
Users == {"t1", "s1"}   \* authenticated callers (req.user.email)
Creators == {"t1"}      \* callers that create sessions
Students == {"s1"}      \* callers that join, poll and submit
Admins == {"a1"}        \* callers with req.user.isAdmin
Questions == {1, 2}     \* _id of the authored questions
QuestionInputs == {1, 2, 3}          \* 3 is an id no question has
SingleCodes == {"100000", "100001"}  \* draws of generateUniqueCode
ClassCodes == {"CS_100000"}          \* draws of generateClassCode
CodeInputs == SingleCodes \cup ClassCodes
SingleDurations == {29, 30}          \* durations asked of create-single
ClassDurations == {1799, 1800}       \* durations asked of create-class
OptionInputs == {2, 5}               \* selectedOption of a submit

(* ------------------------ program constants ---------------------------- *)

NullId == 0             \* null ObjectId
NullDate == -1          \* null Date
MinSingleDuration == 30
MaxSingleDuration == 600
MinClassDuration == 1800
MaxClassDuration == 10800

\* correctAnswer of the authored questions (immutable in this engine)
CorrectAnswer(q) == IF q = 1 THEN 2 ELSE 0

\* explanation of the authored questions
Explanation(q) == IF q = 1 THEN "why 2" ELSE "why 0"

NoAnswer == -1          \* a response without the correctAnswer field

VARIABLES
    sessions,      \* QuizSession collection: sequence of documents, _id = index
    questions,     \* QuizQuestion collection: _id -> mutable fields
    submissions,   \* QuizSubmission collection, in insertion order
    procs,         \* the handlers in flight and their locals, in arrival order
    now,           \* Date.now(), seconds
    started,       \* requests received so far
    ticks,         \* clock advances so far
    last           \* the response sent by the step just taken (NoResp if none)

vars == <<sessions, questions, submissions, procs, now, started, ticks, last>>

(* --------------------------- documents --------------------------------- *)

NoSession ==
    [quizCode |-> "", sessionType |-> "none", questionId |-> NullId,
     activeQuestionId |-> NullId, questionsHistory |-> <<>>, duration |-> 0,
     startedAt |-> NullDate, expiresAt |-> NullDate, status |-> "none",
     createdBy |-> "", studentsJoined |-> <<>>]

NoQuestion ==
    [timesUsed |-> 0, lastUsedAt |-> NullDate, isActiveInSession |-> FALSE,
     activeSessionId |-> NullId]

Idle ==
    [op |-> "idle", pc |-> "idle", user |-> "", code |-> "", qid |-> NullId,
     opt |-> 0, dur |-> 0, sid |-> NullId, session |-> NoSession,
     question |-> NoQuestion, at |-> NullDate]

\* a response without stats and submissions
NoResults ==
    [totalSubmissions |-> 0, correctCount |-> 0, incorrectCount |-> 0,
     submissions |-> <<>>]

NoResp ==
    [op |-> "none", user |-> "", code |-> "", sid |-> NullId, qid |-> NullId,
     http |-> 0, body |-> "", isCorrect |-> FALSE, correctAnswer |-> NoAnswer,
     explanation |-> "", results |-> NoResults]

\* a response; isCorrect, correctAnswer and explanation are the fields of
\* that name, which only the 200 of submit carries
Resp(p, http, body) ==
    [op |-> p.op, user |-> p.user, code |-> p.code, sid |-> p.sid,
     qid |-> p.qid, http |-> http, body |-> body, isCorrect |-> FALSE,
     correctAnswer |-> NoAnswer, explanation |-> "", results |-> NoResults]

(* ---------------------------- helpers ---------------------------------- *)

Min(S) == CHOOSE x \in S : \A y \in S : x <= y

\* QuizSession.findOne({ quizCode }): _id of the first match, NullId if none
FindByCode(code) ==
    LET hits == {i \in DOMAIN sessions : sessions[i].quizCode = code}
    IN  IF hits = {} THEN NullId ELSE Min(hits)

\* an expiry check that never fires
IsExpiredNever(doc, t) == FALSE

\* quizSessionSchema.methods.isExpired, evaluated on a loaded document at t
IsExpired(doc, t) == t > doc.expiresAt

\* Document.save() of one path: written iff the assigned value differs from
\* the value the document was loaded with
SavePath(stored, loaded, assigned) ==
    IF assigned = loaded THEN stored ELSE assigned

\* no unique index on quizCode: every insert is accepted
CodeTakenNoIndex(code) == FALSE

\* the unique index on quizCode: an insert with a stored code is rejected
CodeTaken(code) == \E i \in DOMAIN sessions : sessions[i].quizCode = code

\* the allocator's check without the status filter: a code that only
\* expired sessions hold is drawn again
CodeInUseAnyStatus(code) ==
    \E i \in DOMAIN sessions : sessions[i].quizCode = code

\* findOne({ quizCode: code, status: { $ne: 'expired' } }) of the allocators
CodeInUse(code) ==
    \E i \in DOMAIN sessions :
        sessions[i].quizCode = code /\ sessions[i].status # "expired"

\* the expiry computed without the duration
ExpiresAtNoDuration(startedAt, duration) == startedAt

\* expiresAt = new Date(startedAt.getTime() + duration * 1000)
ExpiresAt(startedAt, duration) == startedAt + duration

\* QuizSubmission.findOne({ quizSessionId, questionId, studentEmail })
HasSubmission(sid, qid, email) ==
    \E i \in DOMAIN submissions :
        /\ submissions[i].quizSessionId = sid
        /\ submissions[i].questionId = qid
        /\ submissions[i].studentEmail = email

\* no unique compound index: every insert is accepted
DuplicateKeyNoIndex(sid, qid, email) == FALSE

\* the unique compound index of QuizSubmission: the insert is rejected
\* (E11000) when a document with the same key is stored
DuplicateKey(sid, qid, email) == HasSubmission(sid, qid, email)

Slots == DOMAIN procs

CanStart == started < MaxRequests /\ Len(procs) < MaxInFlight

\* procs without the handler in slot s
Drop(s) == [i \in 1..(Len(procs) - 1) |-> IF i < s THEN procs[i] ELSE procs[i + 1]]

\* the request in slot s ends with a response
Reply(s, http, body) ==
    /\ last' = Resp(procs[s], http, body)
    /\ procs' = Drop(s)

\* a request that is answered by its first step; of such a request the
\* response keeps the operation, the session it resolved and the answer
Reject(p, http, body) ==
    /\ last' = [Resp(p, http, body) EXCEPT !.user = "", !.code = "",
                                            !.qid = NullId]
    /\ started' = started + 1
    /\ UNCHANGED <<sessions, questions, submissions, procs, now, ticks>>

\* a request that goes on after its first step
Admit(p) ==
    /\ procs' = Append(procs, p)
    /\ started' = started + 1
    /\ last' = NoResp

(* ----------------------------- Init ------------------------------------ *)

Init ==
    /\ sessions = <<>>
    /\ questions = [q \in Questions |-> NoQuestion]
    /\ submissions = <<>>
    /\ procs = <<>>
    /\ now = 0
    /\ started = 0
    /\ ticks = 0
    /\ last = NoResp

\* quizQuestionSchema.statics.getAvailableForCourse: the questions of the
\* course with isActiveInSession false
GetAvailableForCourse == {q \in Questions : ~questions[q].isActiveInSession}

(* ------------------- POST /session/create-single ----------------------- *)

\* the check without its upper bound
BadSingleDurationNoMax(dur) == dur < MinSingleDuration

\* !duration || duration < 30 || duration > 600
BadSingleDuration(dur) == dur < MinSingleDuration \/ dur > MaxSingleDuration

\* !duration || duration < 1800 || duration > 10800
BadClassDuration(dur) == dur < MinClassDuration \/ dur > MaxClassDuration

\* validation and QuizQuestion.findById
CreateSingle(user, qid, dur) ==
    /\ CanStart
    /\ LET p == [Idle EXCEPT !.op = "create-single", !.user = user,
                             !.qid = qid, !.dur = dur]
       IN  IF BadSingleDuration(dur)
           THEN Reject(p, 400, "Duration must be 30-600 seconds")
           ELSE IF qid \notin Questions
           THEN Reject(p, 404, "Question not found")
           ELSE /\ Admit([p EXCEPT !.pc = "gen", !.question = questions[qid]])
                /\ UNCHANGED <<sessions, questions, submissions, now, ticks>>

\* one iteration of generateUniqueCode / generateClassCode; on a free code
\* the continuation takes startedAt = new Date()
GenerateCode(s, code) ==
    /\ procs[s].pc = "gen"
    /\ code \in (IF procs[s].op = "create-single" THEN SingleCodes ELSE ClassCodes)
    /\ IF CodeInUse(code)
       THEN procs' = procs
       ELSE procs' = [procs EXCEPT ![s].pc = "insert", ![s].code = code,
                                   ![s].at = now]
    /\ last' = NoResp
    /\ UNCHANGED <<sessions, questions, submissions, now, started, ticks>>

\* QuizSession.create of a single session
InsertSingle(s) ==
    /\ procs[s].op = "create-single" /\ procs[s].pc = "insert"
    /\ IF CodeTaken(procs[s].code)
       THEN /\ Reply(s, 500, "Failed to create quiz session")
            /\ UNCHANGED sessions
       ELSE /\ sessions' = Append(sessions,
                 [NoSession EXCEPT
                    !.quizCode = procs[s].code,
                    !.sessionType = "single",
                    !.questionId = procs[s].qid,
                    !.duration = procs[s].dur,
                    !.startedAt = procs[s].at,
                    !.expiresAt = ExpiresAt(procs[s].at, procs[s].dur),
                    !.status = "active",
                    !.createdBy = procs[s].user])
            /\ procs' = [procs EXCEPT ![s].pc = "activate",
                                      ![s].sid = Len(sessions) + 1]
            /\ last' = NoResp
    /\ UNCHANGED <<questions, submissions, now, started, ticks>>

\* quizQuestionSchema.methods.activateInSession on the loaded question
ActivateInSession(stored, loaded, sid) ==
    [stored EXCEPT
        !.isActiveInSession = SavePath(@, loaded.isActiveInSession, TRUE),
        !.activeSessionId = SavePath(@, loaded.activeSessionId, sid)]

\* quizQuestionSchema.methods.deactivateFromSession on a question just loaded
DeactivateFromSession(stored) ==
    [stored EXCEPT !.isActiveInSession = FALSE, !.activeSessionId = NullId]

\* quizQuestionSchema.methods.markAsUsed on the loaded question
MarkAsUsed(stored, loaded, t) ==
    [stored EXCEPT
        !.timesUsed = SavePath(@, loaded.timesUsed, loaded.timesUsed + 1),
        !.lastUsedAt = SavePath(@, loaded.lastUsedAt, t)]

\* question.activateInSession(session._id) of create-single and broadcast
Activate(s) ==
    /\ procs[s].pc = "activate"
    /\ questions' = [questions EXCEPT ![procs[s].qid] =
                        ActivateInSession(@, procs[s].question, procs[s].sid)]
    /\ procs' = [procs EXCEPT ![s].pc = "mark"]
    /\ last' = NoResp
    /\ UNCHANGED <<sessions, submissions, now, started, ticks>>

\* question.markAsUsed() and the response of create-single and broadcast
Mark(s) ==
    /\ procs[s].pc = "mark"
    /\ questions' = [questions EXCEPT ![procs[s].qid] =
                        MarkAsUsed(@, procs[s].question, now)]
    /\ IF procs[s].op = "create-single"
       THEN Reply(s, 201, "created")
       ELSE Reply(s, 200, "Question broadcasted to all students")
    /\ UNCHANGED <<sessions, submissions, now, started, ticks>>

(* -------------------- POST /session/create-class ----------------------- *)

CreateClass(user, dur) ==
    /\ CanStart
    /\ LET p == [Idle EXCEPT !.op = "create-class", !.user = user, !.dur = dur]
       IN  IF BadClassDuration(dur)
           THEN Reject(p, 400, "Duration must be 1800-10800 seconds")
           ELSE /\ Admit([p EXCEPT !.pc = "gen"])
                /\ UNCHANGED <<sessions, questions, submissions, now, ticks>>

\* QuizSession.create of a class session and the response
InsertClass(s) ==
    /\ procs[s].op = "create-class" /\ procs[s].pc = "insert"
    /\ IF CodeTaken(procs[s].code)
       THEN /\ Reply(s, 500, "Failed to create class session")
            /\ UNCHANGED sessions
       ELSE /\ sessions' = Append(sessions,
                 [NoSession EXCEPT
                    !.quizCode = procs[s].code,
                    !.sessionType = "class",
                    !.duration = procs[s].dur,
                    !.startedAt = procs[s].at,
                    !.expiresAt = ExpiresAt(procs[s].at, procs[s].dur),
                    !.status = "waiting",
                    !.createdBy = procs[s].user])
            /\ last' = [Resp(procs[s], 201, "created") EXCEPT
                            !.sid = Len(sessions) + 1]
            /\ procs' = Drop(s)
    /\ UNCHANGED <<questions, submissions, now, started, ticks>>

(* ------------------------------ clock ---------------------------------- *)

\* the instants at which some comparison of the engine changes its answer
TickTargets ==
    {t \in UNION {{sessions[i].expiresAt, sessions[i].expiresAt + 1}
                    : i \in DOMAIN sessions} : t > now}

Tick(t) ==
    /\ ticks < MaxTicks
    /\ t \in TickTargets
    /\ now' = t
    /\ ticks' = ticks + 1
    /\ last' = NoResp
    /\ UNCHANGED <<sessions, questions, submissions, procs, started>>

(* ------------------ POST /session/broadcast-question ------------------- *)

\* QuizSession.findOne and the guards on the loaded session
Broadcast(user, code, qid) ==
    /\ CanStart
    /\ LET sid == FindByCode(code)
           p == [Idle EXCEPT !.op = "broadcast", !.user = user, !.code = code,
                             !.qid = qid, !.sid = sid]
       IN  IF sid = NullId
           THEN Reject(p, 404, "Session not found")
           ELSE IF sessions[sid].sessionType # "class"
           THEN Reject(p, 400, "Only class sessions support broadcasting")
           ELSE IF sessions[sid].createdBy # user
           THEN Reject(p, 403, "Only session creator can broadcast")
           ELSE IF IsExpired(sessions[sid], now)
           THEN Reject(p, 410, "Session has expired")
           ELSE /\ Admit([p EXCEPT !.pc = "question", !.session = sessions[sid]])
                /\ UNCHANGED <<sessions, questions, submissions, now, ticks>>

\* QuizQuestion.findById(questionId) of broadcast
\* a broadcast that releases the previous question before it looks the
\* new one up
LoadQuestionAfterRelease(s) ==
    /\ procs[s].pc = "question"
    /\ questions' = [q \in Questions |->
                       IF q = procs[s].session.activeQuestionId
                       THEN DeactivateFromSession(questions[q])
                       ELSE questions[q]]
    /\ IF procs[s].qid \notin Questions
       THEN Reply(s, 404, "Question not found")
       ELSE /\ procs' = [procs EXCEPT
                 ![s].question = questions'[procs[s].qid],
                 ![s].pc = "save"]
            /\ last' = NoResp
    /\ UNCHANGED <<sessions, submissions, now, started, ticks>>

\* QuizQuestion.findById(questionId)
LoadQuestion(s) ==
    /\ procs[s].pc = "question"
    /\ IF procs[s].qid \notin Questions
       THEN Reply(s, 404, "Question not found")
       ELSE /\ procs' = [procs EXCEPT
                 ![s].question = questions[procs[s].qid],
                 ![s].pc = IF procs[s].session.activeQuestionId # NullId
                           THEN "release" ELSE "save"]
            /\ last' = NoResp
    /\ UNCHANGED <<sessions, questions, submissions, now, started, ticks>>

\* "Deactivate previous/current question" of broadcast and end-class:
\* findById(session.activeQuestionId) and deactivateFromSession
Release(s) ==
    /\ procs[s].pc = "release"
    /\ questions' = [questions EXCEPT ![procs[s].session.activeQuestionId] =
                        DeactivateFromSession(@)]
    /\ procs' = [procs EXCEPT ![s].pc = "save"]
    /\ last' = NoResp
    /\ UNCHANGED <<sessions, submissions, now, started, ticks>>

\* broadcastQuestion leaving the status of the session as it is
BroadcastQuestionKeepStatus(stored, loaded, qid, t) ==
    [stored EXCEPT
        !.activeQuestionId = SavePath(@, loaded.activeQuestionId, qid),
        !.questionsHistory = Append(@, [questionId |-> qid, broadcastedAt |-> t])]

\* broadcastQuestion writing the whole questionsHistory array it loaded
BroadcastQuestionSetHistory(stored, loaded, qid, t) ==
    [stored EXCEPT
        !.activeQuestionId = SavePath(@, loaded.activeQuestionId, qid),
        !.status = SavePath(@, loaded.status, "active"),
        !.questionsHistory = Append(loaded.questionsHistory,
                                    [questionId |-> qid, broadcastedAt |-> t])]

\* quizSessionSchema.methods.broadcastQuestion on the loaded session
BroadcastQuestion(stored, loaded, qid, t) ==
    [stored EXCEPT
        !.activeQuestionId = SavePath(@, loaded.activeQuestionId, qid),
        !.status = SavePath(@, loaded.status, "active"),
        !.questionsHistory = Append(@, [questionId |-> qid, broadcastedAt |-> t])]

\* session.broadcastQuestion(question._id)
SaveBroadcast(s) ==
    /\ procs[s].op = "broadcast" /\ procs[s].pc = "save"
    /\ sessions' = [sessions EXCEPT ![procs[s].sid] =
                      BroadcastQuestion(@, procs[s].session, procs[s].qid, now)]
    /\ procs' = [procs EXCEPT ![s].pc = "activate"]
    /\ last' = NoResp
    /\ UNCHANGED <<questions, submissions, now, started, ticks>>

(* ----------------------- POST /session/end-class ----------------------- *)

EndClass(user, code) ==
    /\ CanStart
    /\ LET sid == FindByCode(code)
           p == [Idle EXCEPT !.op = "end", !.user = user, !.code = code,
                             !.sid = sid]
       IN  IF sid = NullId
           THEN Reject(p, 404, "Session not found")
           ELSE IF sessions[sid].createdBy # user
           THEN Reject(p, 403, "Only session creator can end session")
           ELSE /\ Admit([p EXCEPT
                     !.session = sessions[sid],
                     !.pc = IF sessions[sid].activeQuestionId # NullId
                            THEN "release" ELSE "save"])
                /\ UNCHANGED <<sessions, questions, submissions, now, ticks>>

\* session.status = 'expired'; session.save() on the loaded session
SetExpired(stored, loaded) ==
    [stored EXCEPT !.status = SavePath(@, loaded.status, "expired")]

SaveEnd(s) ==
    /\ procs[s].op = "end" /\ procs[s].pc = "save"
    /\ sessions' = [sessions EXCEPT ![procs[s].sid] =
                      SetExpired(@, procs[s].session)]
    /\ Reply(s, 200, "Class session ended")
    /\ UNCHANGED <<questions, submissions, now, started, ticks>>

(* ------------------------- POST /session/join -------------------------- *)

\* a view that copies the populated question whole into the response
ReplyViewWholeQuestion(s, http, body, qid) ==
    /\ last' = [Resp(procs[s], http, body) EXCEPT
                    !.qid = qid,
                    !.correctAnswer = IF qid = NullId THEN NoAnswer
                                      ELSE CorrectAnswer(qid),
                    !.explanation = IF qid = NullId THEN ""
                                    ELSE Explanation(qid)]
    /\ procs' = Drop(s)

\* the response of join and poll; qid is the question whose text and
\* options the response carries (NullId: no question payload)
ReplyView(s, http, body, qid) ==
    /\ last' = [Resp(procs[s], http, body) EXCEPT !.qid = qid]
    /\ procs' = Drop(s)

\* QuizSession.findOne({ quizCode: code }) and session.isExpired();
\* addStudent stamps joinedAt before the save is awaited
Join(user, code) ==
    /\ CanStart
    /\ LET sid == FindByCode(code)
           p == [Idle EXCEPT !.op = "join", !.user = user, !.code = code,
                             !.sid = sid]
       IN  IF sid = NullId
           THEN Reject(p, 404, "Quiz not found or has ended")
           ELSE /\ Admit([p EXCEPT
                     !.session = sessions[sid],
                     !.at = now,
                     !.pc = IF IsExpired(sessions[sid], now) THEN "expire"
                            ELSE IF sessions[sid].sessionType = "class"
                            THEN "add" ELSE "view"])
                /\ UNCHANGED <<sessions, questions, submissions, now, ticks>>

\* session.status = 'expired'; session.save(); 410
JoinExpire(s) ==
    /\ procs[s].op = "join" /\ procs[s].pc = "expire"
    /\ sessions' = [sessions EXCEPT ![procs[s].sid] =
                      SetExpired(@, procs[s].session)]
    /\ Reply(s, 410, "Session has expired")
    /\ UNCHANGED <<questions, submissions, now, started, ticks>>

\* quizSessionSchema.methods.addStudent on the loaded session, then save()
AddStudent(stored, loaded, email, t) ==
    IF \E i \in DOMAIN loaded.studentsJoined :
           loaded.studentsJoined[i].email = email
    THEN stored
    ELSE [stored EXCEPT !.studentsJoined =
              Append(@, [email |-> email, joinedAt |-> t])]

\* the save of addStudent, and the views that need no further read
JoinAdd(s) ==
    /\ procs[s].op = "join" /\ procs[s].pc = "add"
    /\ sessions' = [sessions EXCEPT ![procs[s].sid] =
                      AddStudent(@, procs[s].session, procs[s].user, procs[s].at)]
    /\ IF procs[s].session.status = "waiting"
       THEN ReplyView(s, 200, "waiting", NullId)
       ELSE IF /\ procs[s].session.status = "active"
               /\ procs[s].session.activeQuestionId # NullId
       THEN procs' = [procs EXCEPT ![s].pc = "view"] /\ last' = NoResp
       ELSE ReplyView(s, 200, "waiting", NullId)
    /\ UNCHANGED <<questions, submissions, now, started, ticks>>

\* a join that shows the question without looking for a Submission
JoinViewNoLookup(s) ==
    /\ procs[s].op = "join" /\ procs[s].pc = "view"
    /\ LET doc == procs[s].session
       IN  ReplyView(s, 200, "active",
                     IF doc.sessionType = "single" THEN doc.questionId
                     ELSE doc.activeQuestionId)
    /\ UNCHANGED <<sessions, questions, submissions, now, started, ticks>>

\* QuizSubmission.findOne for the question in view, and the view
JoinView(s) ==
    /\ procs[s].op = "join" /\ procs[s].pc = "view"
    /\ LET doc == procs[s].session
           q == IF doc.sessionType = "single" THEN doc.questionId
                ELSE doc.activeQuestionId
       IN  IF HasSubmission(procs[s].sid, q, procs[s].user)
           THEN IF doc.sessionType = "single"
                THEN ReplyView(s, 409, "alreadySubmitted", NullId)
                ELSE ReplyView(s, 200, "submitted", NullId)
           ELSE ReplyView(s, 200, "active", q)
    /\ UNCHANGED <<sessions, questions, submissions, now, started, ticks>>

(* ----------------------- GET /session/poll/:code ----------------------- *)

\* a poll that registers the student the way join does
PollAddingStudent(user, code) ==
    /\ CanStart
    /\ LET sid == FindByCode(code)
           p == [Idle EXCEPT !.op = "poll", !.sid = sid]
       IN  /\ sid # NullId
           /\ sessions[sid].sessionType = "class"
           /\ sessions' = [sessions EXCEPT ![sid] = AddStudent(@, @, user, now)]
           /\ last' = Resp(p, 200, "waiting")
           /\ started' = started + 1
           /\ UNCHANGED <<questions, submissions, procs, now, ticks>>

\* QuizSession.findOne, the guards and the views that need no further read
Poll(user, code) ==
    /\ CanStart
    /\ LET sid == FindByCode(code)
           p == [Idle EXCEPT !.op = "poll", !.user = user, !.code = code,
                             !.sid = sid]
       IN  IF sid = NullId
           THEN Reject(p, 404, "Session not found")
           ELSE IF sessions[sid].sessionType # "class"
           THEN Reject(p, 400, "Polling only for class sessions")
           ELSE IF IsExpired(sessions[sid], now)
           THEN Reject(p, 200, "expired")
           ELSE IF sessions[sid].status = "waiting"
           THEN Reject(p, 200, "waiting")
           ELSE IF /\ sessions[sid].status = "active"
                   /\ sessions[sid].activeQuestionId # NullId
           THEN /\ Admit([p EXCEPT !.session = sessions[sid], !.pc = "view"])
                /\ UNCHANGED <<sessions, questions, submissions, now, ticks>>
           ELSE Reject(p, 200, "waiting")

PollView(s) ==
    /\ procs[s].op = "poll" /\ procs[s].pc = "view"
    /\ LET q == procs[s].session.activeQuestionId
       IN  IF HasSubmission(procs[s].sid, q, procs[s].user)
           THEN ReplyView(s, 200, "submitted", NullId)
           ELSE ReplyView(s, 200, "active", q)
    /\ UNCHANGED <<sessions, questions, submissions, now, started, ticks>>

(* ------------------------ POST /session/submit ------------------------- *)

\* broadcastTime of submit, from the loaded session
BroadcastTime(doc, qid) ==
    IF doc.sessionType = "single" THEN doc.startedAt
    ELSE LET hits == {i \in DOMAIN doc.questionsHistory :
                         doc.questionsHistory[i].questionId = qid}
         IN  IF hits = {} THEN doc.startedAt
             ELSE doc.questionsHistory[Min(hits)].broadcastedAt

\* the question in scope taken from activeQuestionId for every type
QuestionInScopeActiveOnly(doc) == doc.activeQuestionId

\* "Determine which question": questionId of a single session,
\* activeQuestionId of a class session
QuestionInScope(doc) ==
    IF doc.sessionType = "single" THEN doc.questionId ELSE doc.activeQuestionId

\* validation, QuizSession.findOne, isExpired, the question in scope and
\* QuizQuestion.findById (questions are never deleted)
Submit(user, code, opt) ==
    /\ CanStart
    /\ LET sid == FindByCode(code)
           p == [Idle EXCEPT !.op = "submit", !.user = user, !.code = code,
                             !.opt = opt, !.sid = sid]
           q == IF sid = NullId THEN NullId ELSE QuestionInScope(sessions[sid])
       IN  IF opt \notin {0, 1, 2, 3}
           THEN Reject(p, 400, "Invalid option")
           ELSE IF sid = NullId
           THEN Reject(p, 404, "Session not found")
           ELSE IF IsExpired(sessions[sid], now)
           THEN Reject(p, 410, "Session has expired")
           ELSE IF q = NullId
           THEN Reject(p, 400, "No active question")
           ELSE /\ Admit([p EXCEPT !.session = sessions[sid], !.qid = q,
                                   !.pc = "check"])
                /\ UNCHANGED <<sessions, questions, submissions, now, ticks>>

\* "Check duplicate": QuizSubmission.findOne; then timeTaken is computed
SubmitCheck(s) ==
    /\ procs[s].op = "submit" /\ procs[s].pc = "check"
    /\ IF HasSubmission(procs[s].sid, procs[s].qid, procs[s].user)
       THEN Reply(s, 409, "Already submitted")
       ELSE /\ procs' = [procs EXCEPT ![s].pc = "insert", ![s].at = now]
            /\ last' = NoResp
    /\ UNCHANGED <<sessions, questions, submissions, now, started, ticks>>

\* every answer is scored correct
IsCorrectAlways(opt, qid) == TRUE

\* const isCorrect = selectedOption === question.correctAnswer
IsCorrect(opt, qid) == opt = CorrectAnswer(qid)

\* the 200 of submit: isCorrect as stored, correctAnswer and explanation
ReplyScored(s, isCorrect) ==
    /\ last' = [Resp(procs[s], 200, "success") EXCEPT
                    !.isCorrect = isCorrect,
                    !.correctAnswer = CorrectAnswer(procs[s].qid),
                    !.explanation = Explanation(procs[s].qid)]
    /\ procs' = Drop(s)

\* QuizSubmission.create and the response; E11000 is answered 409
SubmitInsert(s) ==
    /\ procs[s].op = "submit" /\ procs[s].pc = "insert"
    /\ IF DuplicateKey(procs[s].sid, procs[s].qid, procs[s].user)
       THEN /\ Reply(s, 409, "Already submitted")
            /\ UNCHANGED submissions
       ELSE LET isCorrect == IsCorrect(procs[s].opt, procs[s].qid)
            IN  /\ submissions' = Append(submissions,
                     [quizSessionId |-> procs[s].sid,
                      questionId |-> procs[s].qid,
                      studentEmail |-> procs[s].user,
                      selectedOption |-> procs[s].opt,
                      isCorrect |-> isCorrect,
                      timeTaken |-> procs[s].at
                                  - BroadcastTime(procs[s].session, procs[s].qid),
                      submittedAt |-> procs[s].at])
                /\ ReplyScored(s, isCorrect)
    /\ UNCHANGED <<sessions, questions, now, started, ticks>>

(* ------------------- GET /session/:sessionId/results ------------------- *)

\* a permission check that lets every caller through
ForbiddenNever(doc, user) == FALSE

\* session.createdBy !== req.user.email && !req.user.isAdmin
Forbidden(doc, user) == doc.createdBy # user /\ user \notin Admins

\* QuizSubmission.find({ quizSessionId }).sort({ submittedAt: 1 }): the
\* Submissions of the session by submittedAt, equal times in stored order
FindSorted(sid) ==
    LET hits == {i \in DOMAIN submissions : submissions[i].quizSessionId = sid}
        Before(i, j) ==
            \/ submissions[i].submittedAt < submissions[j].submittedAt
            \/ /\ submissions[i].submittedAt = submissions[j].submittedAt
               /\ i < j
        Rank(i) == Cardinality({j \in hits : Before(j, i)}) + 1
    IN  [k \in 1..Cardinality(hits) |->
            submissions[CHOOSE i \in hits : Rank(i) = k]]

\* stats and submissions of the response of results
ResultsOf(found) ==
    [totalSubmissions |-> Len(found),
     correctCount |-> Cardinality({k \in DOMAIN found : found[k].isCorrect}),
     incorrectCount |-> Cardinality({k \in DOMAIN found : ~found[k].isCorrect}),
     submissions |-> found]

\* QuizSession.findById and the permission check
Results(user, sid) ==
    /\ CanStart
    /\ LET p == [Idle EXCEPT !.op = "results", !.user = user, !.sid = sid]
       IN  IF sid \notin DOMAIN sessions
           THEN Reject([p EXCEPT !.sid = NullId], 404, "Session not found")
           ELSE IF Forbidden(sessions[sid], user)
           THEN Reject(p, 403, "No permission")
           ELSE /\ Admit([p EXCEPT !.session = sessions[sid],
                                   !.code = sessions[sid].quizCode,
                                   !.pc = "find"])
                /\ UNCHANGED <<sessions, questions, submissions, now, ticks>>

\* QuizSubmission.find and the response, whose session.status is the
\* status of the loaded session
ResultsFind(s) ==
    /\ procs[s].op = "results" /\ procs[s].pc = "find"
    /\ last' = [Resp(procs[s], 200, procs[s].session.status) EXCEPT
                    !.results = ResultsOf(FindSorted(procs[s].sid))]
    /\ procs' = Drop(s)
    /\ UNCHANGED <<sessions, questions, submissions, now, started, ticks>>

(* --------------------------- specification ----------------------------- *)

Next ==
    \/ \E u \in Creators, q \in QuestionInputs, d \in SingleDurations :
           CreateSingle(u, q, d)
    \/ \E u \in Creators, d \in ClassDurations : CreateClass(u, d)
    \/ \E s \in Slots, c \in CodeInputs : GenerateCode(s, c)
    \/ \E s \in Slots : InsertSingle(s)
    \/ \E s \in Slots : InsertClass(s)
    \/ \E s \in Slots : Activate(s)
    \/ \E s \in Slots : Mark(s)
    \/ \E u \in Users, c \in CodeInputs, q \in QuestionInputs : Broadcast(u, c, q)
    \/ \E s \in Slots : LoadQuestion(s)
    \/ \E s \in Slots : Release(s)
    \/ \E s \in Slots : SaveBroadcast(s)
    \/ \E u \in Users, c \in CodeInputs : EndClass(u, c)
    \/ \E s \in Slots : SaveEnd(s)
    \/ \E u \in Students, c \in CodeInputs : Join(u, c)
    \/ \E s \in Slots : JoinExpire(s)
    \/ \E s \in Slots : JoinAdd(s)
    \/ \E s \in Slots : JoinView(s)
    \/ \E u \in Students, c \in CodeInputs : Poll(u, c)
    \/ \E s \in Slots : PollView(s)
    \/ \E u \in Students, c \in CodeInputs, o \in OptionInputs : Submit(u, c, o)
    \/ \E s \in Slots : SubmitCheck(s)
    \/ \E s \in Slots : SubmitInsert(s)
    \/ \E u \in Users, i \in 1..(Len(sessions) + 1) : Results(u, i)
    \/ \E s \in Slots : ResultsFind(s)
    \/ \E t \in TickTargets : Tick(t)

Spec == Init /\ [][Next]_vars

(* ------------------- services/quizCleanup.js --------------------------- *)

\* a sweep that also purges the Submissions of the sessions it expires
CleanupPurging ==
    LET swept == {i \in DOMAIN sessions :
                    sessions[i].status = "active" /\ sessions[i].expiresAt <= now}
        Kept(sub) == sub.quizSessionId \notin swept
    IN  /\ sessions' = [i \in DOMAIN sessions |->
                          IF i \in swept
                          THEN [sessions[i] EXCEPT !.status = "expired"]
                          ELSE sessions[i]]
        /\ submissions' = SelectSeq(submissions, Kept)
        /\ last' = NoResp
        /\ UNCHANGED <<questions, procs, now, started, ticks>>

\* QuizCleanupService.cleanupExpiredQuizzes: one updateMany
CleanupExpiredQuizzes ==
    /\ sessions' = [i \in DOMAIN sessions |->
                      IF sessions[i].status = "active" /\ sessions[i].expiresAt <= now
                      THEN [sessions[i] EXCEPT !.status = "expired"]
                      ELSE sessions[i]]
    /\ last' = NoResp
    /\ UNCHANGED <<questions, submissions, procs, now, started, ticks>>

\* the engine with the cleanup service started
NextSweep == Next \/ CleanupExpiredQuizzes

SpecSweep == Init /\ [][NextSweep]_vars

(* ----------------------- a class in progress --------------------------- *)

\* the engine right after create-class { duration: 1800 } by t1 at time 0
\* was answered 201: the state Spec reaches by CreateClass, GenerateCode
\* and InsertClass; the requests that follow are counted from here
InitClass ==
    /\ sessions = << [NoSession EXCEPT
                        !.quizCode = "CS_100000",
                        !.sessionType = "class",
                        !.duration = MinClassDuration,
                        !.startedAt = 0,
                        !.expiresAt = ExpiresAt(0, MinClassDuration),
                        !.status = "waiting",
                        !.createdBy = "t1"] >>
    /\ questions = [q \in Questions |-> NoQuestion]
    /\ submissions = <<>>
    /\ procs = <<>>
    /\ now = 0
    /\ started = 0
    /\ ticks = 0
    /\ last = NoResp

SpecClass == InitClass /\ [][Next]_vars

(* ---------------------- creates at the bounds -------------------------- *)

\* durations on both sides of each bound of a single and of a class session
EdgeSingleDurations ==
    {MinSingleDuration - 1, MinSingleDuration,
     MaxSingleDuration, MaxSingleDuration + 1}

EdgeClassDurations ==
    {MinClassDuration - 1, MinClassDuration,
     MaxClassDuration, MaxClassDuration + 1}

\* the create requests and the steps of their handlers
NextCreate ==
    \/ \E u \in Creators, q \in QuestionInputs, d \in EdgeSingleDurations :
           CreateSingle(u, q, d)
    \/ \E u \in Creators, d \in EdgeClassDurations : CreateClass(u, d)
    \/ \E s \in Slots, c \in CodeInputs : GenerateCode(s, c)
    \/ \E s \in Slots : InsertSingle(s)
    \/ \E s \in Slots : InsertClass(s)
    \/ \E s \in Slots : Activate(s)
    \/ \E s \in Slots : Mark(s)

SpecCreate == Init /\ [][NextCreate]_vars

(* ------------------------ results of a class -------------------------- *)

\* the Submission student s1 stores for question q of session 1, which
\* broadcast q at time 0, when the duplicate check of the submit ran at t
Stored(q, t) ==
    [quizSessionId |-> 1, questionId |-> q, studentEmail |-> "s1",
     selectedOption |-> CorrectAnswer(1),
     isCorrect |-> IsCorrect(CorrectAnswer(1), q),
     timeTaken |-> t, submittedAt |-> t]

\* the ledgers of session 1 after s1 answered none, one or both of its
\* questions; a submit is stamped at its duplicate check and stored by a
\* later step, so the stored order need not be the order of the stamps
Ledgers ==
    LET T == {0, ExpiresAt(0, MinClassDuration)}
    IN  {<<>>}
        \cup {<<Stored(q, t)>> : q \in Questions, t \in T}
        \cup UNION {{<<Stored(q, t), Stored(r, u)>> :
                        r \in Questions \ {q}, t \in T, u \in T} :
                     q \in Questions}

\* the engine when the class session of InitClass has reached its expiry
\* time after broadcast-question of 1 and then of 2 at time 0 and the
\* submits of s1: what the results handler can find stored
InitResults ==
    /\ sessions = << [NoSession EXCEPT
                        !.quizCode = "CS_100000",
                        !.sessionType = "class",
                        !.activeQuestionId = 2,
                        !.questionsHistory =
                            << [questionId |-> 1, broadcastedAt |-> 0],
                               [questionId |-> 2, broadcastedAt |-> 0] >>,
                        !.duration = MinClassDuration,
                        !.startedAt = 0,
                        !.expiresAt = ExpiresAt(0, MinClassDuration),
                        !.status = "active",
                        !.createdBy = "t1"] >>
    /\ questions = [q \in Questions |->
                      [NoQuestion EXCEPT
                          !.timesUsed = 1,
                          !.lastUsedAt = 0,
                          !.isActiveInSession = (q = 2),
                          !.activeSessionId = IF q = 2 THEN 1 ELSE NullId]]
    /\ submissions \in Ledgers
    /\ procs = <<>>
    /\ now = ExpiresAt(0, MinClassDuration)
    /\ started = 0
    /\ ticks = 0
    /\ last = NoResp

\* the requests for results, by the creator, a student and an admin
NextResults ==
    \/ \E u \in Users \cup Admins, i \in 1..(Len(sessions) + 1) : Results(u, i)
    \/ \E s \in Slots : ResultsFind(s)

SpecResults == InitResults /\ [][NextResults]_vars

(* ------------------------- fair random draws --------------------------- *)

\* an iteration of an allocator that draws a code its check finds free
DrawFree ==
    \E s \in Slots, c \in CodeInputs :
        GenerateCode(s, c) /\ procs'[s].pc = "insert"

\* Math.random() is fair: an allocator that keeps iterating while some code
\* of its format passes the check does, sooner or later, draw such a code
SpecFair == Init /\ [][Next]_vars /\ SF_vars(DrawFree)

(* ------------------------------ claims --------------------------------- *)

SameKey(a, b) ==
    /\ a.quizSessionId = b.quizSessionId
    /\ a.questionId = b.questionId
    /\ a.studentEmail = b.studentEmail

UniqueSubmissions ==
    \A i, j \in DOMAIN submissions :
        i # j => ~SameKey(submissions[i], submissions[j])

\* a submit that resolved its (session, question, student) triple is
\* answered 200 or 409, and either way a Submission of the triple is stored
SubmitAnswered ==
    (last.op = "submit" /\ last.qid # NullId) =>
        /\ last.http \in {200, 409}
        /\ HasSubmission(last.sid, last.qid, last.user)

\* the step that answers a submit 200 is the step that stores the first
\* Submission of its triple
SubmitOkInserts ==
    (last'.op = "submit" /\ last'.http = 200) =>
        /\ ~HasSubmission(last'.sid, last'.qid, last'.user)
        /\ Len(submissions') = Len(submissions) + 1
        /\ SameKey(submissions'[Len(submissions')],
                   [quizSessionId |-> last'.sid, questionId |-> last'.qid,
                    studentEmail |-> last'.user])

\* C1: at most one Submission per (session, question, student) triple in
\* every reachable state; of the submit requests of one triple, however
\* their existence checks and inserts interleave, the one that stores the
\* Submission is answered 200 and every other is answered 409.
C1_OneSubmissionPerTriple ==
    /\ [](UniqueSubmissions /\ SubmitAnswered)
    /\ [][SubmitOkInserts]_vars

\* a submit has passed its existence check and is about to insert, and a
\* concurrent submit has stored the Submission of the same triple meanwhile
C1_Witness ==
    \E s \in Slots :
        /\ procs[s].op = "submit" /\ procs[s].pc = "insert"
        /\ HasSubmission(procs[s].sid, procs[s].qid, procs[s].user)

\* the question a session has live: the fixed question of a single session,
\* the active question of a class session
LiveQuestion(i) ==
    IF sessions[i].sessionType = "single" THEN sessions[i].questionId
    ELSE sessions[i].activeQuestionId

\* question q is reserved by session i
ReservedBy(q, i) ==
    questions[q].isActiveInSession /\ questions[q].activeSessionId = i

\* C2: a question's reservation is held by at most one session: a question
\* reserved by one session is never reserved over by another one, so no
\* two non-expired sessions have the same question live at the same time.
C2_ReservationExclusive ==
    \A i, j \in DOMAIN sessions :
        (/\ i # j
         /\ sessions[i].status # "expired"
         /\ sessions[j].status # "expired"
         /\ LiveQuestion(i) # NullId)
        => LiveQuestion(i) # LiveQuestion(j)

\* C3: expired is terminal: no step takes a session whose stored status is
\* expired to waiting or active.
C3_ExpiredIsTerminal ==
    [][\A i \in DOMAIN sessions :
          sessions[i].status = "expired" => sessions'[i].status = "expired"]_vars

\* the handler this step admitted to procs (Idle if the step admitted none)
Admitted == IF Len(procs') = Len(procs) + 1 THEN procs'[Len(procs')] ELSE Idle

\* the session document is past its expiry at the time of this step
Past(doc) == now >= doc.expiresAt

\* C4: an operation that observes a session at now >= expiresAt reports it
\* expired: join, submit and broadcast are answered 410 (join after storing
\* the expiry), poll answers status expired, results shows status expired.
\* The step that receives a request loads the session and evaluates the
\* expiry; requests refused before that (bad option, wrong type, not the
\* creator) observe nothing.
C4_ObservedExpired ==
    [][started' = started + 1 =>
        /\ Admitted.op = "join" /\ Past(Admitted.session)
              => Admitted.pc = "expire"
        /\ Admitted.op \in {"submit", "broadcast", "poll"}
              => ~Past(Admitted.session)
        /\ Admitted.op = "results" /\ Past(Admitted.session)
              => Admitted.session.status = "expired"
        /\ last'.op = "poll" /\ last'.http = 200 /\ Past(sessions[last'.sid])
              => last'.body = "expired"
        /\ last'.op = "submit" /\ last'.body = "No active question"
              => ~Past(sessions[last'.sid])]_vars

\* the operation answered that the session is expired
SaidExpired == last.http = 410 \/ (last.op = "poll" /\ last.body = "expired")

\* C5: lazy expiry on every path: when join, poll, submit or broadcast
\* finds a session past its expiry, the stored status of the session is
\* expired when the operation returns.
C5_LazyExpiryStored ==
    (last.op \in {"join", "poll", "submit", "broadcast"} /\ SaidExpired)
        => sessions[last.sid].status = "expired"

\* C6: expiresAt = startedAt + duration for every session, and no step
\* (of any handler, or of the cleanup sweep) changes expiresAt, startedAt
\* or duration of a stored session.
C6_ExpiryFixed ==
    /\ [](\A i \in DOMAIN sessions :
            sessions[i].expiresAt = sessions[i].startedAt + sessions[i].duration)
    /\ [][\A i \in DOMAIN sessions :
            /\ i \in DOMAIN sessions'
            /\ sessions'[i].expiresAt = sessions[i].expiresAt
            /\ sessions'[i].startedAt = sessions[i].startedAt
            /\ sessions'[i].duration = sessions[i].duration]_vars

\* a class session that was broadcast into and whose status was set to
\* expired after its expiry, by a join or by the sweep
C6_Witness ==
    \E i \in DOMAIN sessions :
        /\ sessions[i].questionsHistory # <<>>
        /\ sessions[i].status = "expired"
        /\ now > sessions[i].expiresAt

\* C7: a class session has no active question before its first broadcast,
\* and when a broadcast of Q is answered 200, Q is the session's
\* activeQuestionId and Q is reserved by the session.
C7_BroadcastReserves ==
    /\ \A i \in DOMAIN sessions :
          (sessions[i].sessionType = "class" /\ sessions[i].questionsHistory = <<>>)
              => sessions[i].activeQuestionId = NullId
    /\ (last.op = "broadcast" /\ last.http = 200) =>
          /\ sessions[last.sid].activeQuestionId = last.qid
          /\ ReservedBy(last.qid, last.sid)

\* C8: with no request in flight, a class session holds no reservation on
\* a question it broadcast earlier other than its current activeQuestionId.
C8_OneActiveQuestion ==
    procs = <<>> =>
        \A i \in DOMAIN sessions :
            \A k \in DOMAIN sessions[i].questionsHistory :
                LET q == sessions[i].questionsHistory[k].questionId
                IN  q # sessions[i].activeQuestionId => ~ReservedBy(q, i)

\* C9: when end is answered 200, the session's status is expired and no
\* question is reserved by the session, single and class sessions alike.
C9_EndReleases ==
    (last.op = "end" /\ last.http = 200) =>
        /\ sessions[last.sid].status = "expired"
        /\ \A q \in Questions : ~ReservedBy(q, last.sid)

\* C10: no two sessions whose status is not expired have the same code.
C10_LiveCodesUnique ==
    \A i, j \in DOMAIN sessions :
        (/\ i # j
         /\ sessions[i].status # "expired"
         /\ sessions[j].status # "expired")
        => sessions[i].quizCode # sessions[j].quizCode

\* two concurrent creates drew the same code, both passed the collision
\* check, one has inserted its session and the other is about to insert
C10_Witness ==
    \E s \in Slots :
        /\ procs[s].op \in {"create-single", "create-class"}
        /\ procs[s].pc = "insert"
        /\ CodeInUse(procs[s].code)

\* code is the quizCode of a stored session whose status is not expired
HeldLive(code) ==
    \E i \in DOMAIN sessions :
        sessions[i].quizCode = code /\ sessions[i].status # "expired"

\* C11: reuse of an expired session's code: a create whose allocator
\* returned a code that only expired sessions hold stores its session and
\* is answered 201, so a create is refused at the insert (500) only when a
\* session that is not expired holds the code.
C11_ExpiredCodeReused ==
    (last.op \in {"create-single", "create-class"} /\ last.http = 500)
        => HeldLive(last.code)

\* the codes of the format the allocator of handler p draws from
CodesOf(p) == IF p.op = "create-single" THEN SingleCodes ELSE ClassCodes

\* handler p is in its allocator and some code of its format is free
Allocating(p) == p.pc = "gen" /\ \E c \in CodesOf(p) : ~HeldLive(c)

\* the step by which an allocator returns: the code it returns is held by
\* no session that is not expired
ReturnsFree ==
    \A s \in Slots :
        (/\ procs[s].pc = "gen"
         /\ Len(procs') = Len(procs)
         /\ procs'[s].pc = "insert")
        => (procs'[s].code \in CodesOf(procs[s]) /\ ~HeldLive(procs'[s].code))

\* C12: the allocators terminate: under fair draws no allocator iterates
\* for ever while a code of its format is held by no non-expired session,
\* and the code an allocator returns is one that no non-expired session
\* held when it was checked.
C12_AllocatorReturns ==
    /\ [][ReturnsFree]_vars
    /\ <>[](\A s \in Slots : ~Allocating(procs[s]))

\* an allocator has returned a code while a session that is not expired
\* holds another code of the same format, which it could have drawn
C12_Witness ==
    \E s \in Slots :
        /\ procs[s].op = "create-single" /\ procs[s].pc = "insert"
        /\ \E c \in SingleCodes : c # procs[s].code /\ HeldLive(c)

\* the step refuses the request it receives and stores no Submission
Refused(http, body) ==
    /\ last'.op = "submit" /\ last'.http = http /\ last'.body = body
    /\ UNCHANGED <<submissions, procs>>

\* a submit with an option outside {0,1,2,3} is refused 400, and a submit
\* with a valid option that finds its session past expiresAt is refused 410
SubmitRefusals ==
    \A u \in Students, c \in CodeInputs, o \in OptionInputs :
        Submit(u, c, o) =>
            LET sid == FindByCode(c)
            IN  /\ o \notin {0, 1, 2, 3} => Refused(400, "Invalid option")
                /\ (/\ o \in {0, 1, 2, 3}
                    /\ sid # NullId
                    /\ now > sessions[sid].expiresAt)
                   => Refused(410, "Session has expired")

\* a Submission is stored only by a submit that is in flight, with the
\* option, session and question that submit was received with
StoredByAdmitted ==
    submissions' # submissions =>
        \E s \in Slots :
            /\ procs[s].op = "submit"
            /\ procs[s].opt \in {0, 1, 2, 3}
            /\ procs[s].session.expiresAt = sessions[procs[s].sid].expiresAt
            /\ submissions' = Append(submissions, submissions'[Len(submissions')])
            /\ submissions'[Len(submissions')].quizSessionId = procs[s].sid
            /\ submissions'[Len(submissions')].selectedOption = procs[s].opt

\* a submit that goes on after its first step was received with a valid
\* option at a time that is not later than its session's expiresAt
AdmittedInTime ==
    (started' = started + 1 /\ Admitted.op = "submit") =>
        /\ Admitted.opt \in {0, 1, 2, 3}
        /\ now <= Admitted.session.expiresAt

\* C13 as stated: both refusals, and no Submission whose creation time is
\* later than its session's expiresAt.
C13_NoSubmissionAfterExpiry ==
    /\ [][SubmitRefusals]_vars
    /\ [](\A i \in DOMAIN submissions :
            submissions[i].submittedAt
                <= sessions[submissions[i].quizSessionId].expiresAt)

\* C13 (amended): a submit with selectedOption outside {0,1,2,3} is refused
\* with InvalidInput and a submit received after its session's expiresAt
\* is refused with Expired, both storing no Submission; so every Submission
\* is stored by a submit that was received with a valid option no later
\* than expiresAt.
C13_NoSubmissionReceivedAfterExpiry ==
    [][SubmitRefusals /\ AdmittedInTime /\ StoredByAdmitted]_vars

\* a Submission is stored and a submit to its session, after the expiry,
\* has been refused
C13_Witness ==
    /\ last.op = "submit" /\ last.http = 410
    /\ \E i \in DOMAIN submissions : submissions[i].quizSessionId = last.sid

\* every stored Submission is scored against the correct index of its
\* question
ScoredAtWrite ==
    \A i \in DOMAIN submissions :
        submissions[i].isCorrect
            <=> (submissions[i].selectedOption
                    = CorrectAnswer(submissions[i].questionId))

\* the 200 of a submit belongs to the first Submission of its triple, which
\* this step stores, and carries the isCorrect stored with it
SubmitReturnsScore ==
    (last'.op = "submit" /\ last'.http = 200) =>
        /\ \A i \in DOMAIN submissions :
              ~SameKey(submissions[i],
                       [quizSessionId |-> last'.sid, questionId |-> last'.qid,
                        studentEmail |-> last'.user])
        /\ submissions' = Append(submissions, submissions'[Len(submissions')])
        /\ submissions'[Len(submissions')].quizSessionId = last'.sid
        /\ submissions'[Len(submissions')].questionId = last'.qid
        /\ submissions'[Len(submissions')].studentEmail = last'.user
        /\ submissions'[Len(submissions')].isCorrect = last'.isCorrect

\* a submit refused as a duplicate finds a Submission of its triple stored
DuplicateRefused ==
    (last.op = "submit" /\ last.http = 409) =>
        \E i \in DOMAIN submissions :
            /\ submissions[i].quizSessionId = last.sid
            /\ submissions[i].questionId = last.qid
            /\ submissions[i].studentEmail = last.user

\* C14: a successful submit stores isCorrect = (selectedOption = the
\* question's correct index), computed at the write, and returns that same
\* value; for a single session with question Q (correct index c) the first
\* submit of a student returns true for option c and false for another
\* option, and a second submit of the same student is refused as duplicate.
C14_ScoredAtWrite ==
    /\ [](ScoredAtWrite /\ DuplicateRefused)
    /\ [][SubmitReturnsScore]_vars

\* Scenario A: in a single session a Submission scored correct is stored
\* and a second submit of the same student has been refused as duplicate
C14_Witness ==
    /\ last.op = "submit" /\ last.http = 409
    /\ sessions[last.sid].sessionType = "single"
    /\ \E i \in DOMAIN submissions :
          /\ submissions[i].quizSessionId = last.sid
          /\ submissions[i].studentEmail = last.user
          /\ submissions[i].isCorrect

\* the questions a class session has broadcast
Broadcasted(i) ==
    {sessions[i].questionsHistory[k].questionId :
        k \in DOMAIN sessions[i].questionsHistory}

\* every Submission references a question of its session: one the class
\* session broadcast, the fixed question of the single session
SubmissionsInScope ==
    \A k \in DOMAIN submissions :
        LET i == submissions[k].quizSessionId
        IN  /\ i \in DOMAIN sessions
            /\ IF sessions[i].sessionType = "class"
               THEN submissions[k].questionId \in Broadcasted(i)
               ELSE submissions[k].questionId = sessions[i].questionId

\* no step removes or rewrites an entry of questionsHistory or changes the
\* fixed question of a session
HistoryKept ==
    \A i \in DOMAIN sessions :
        /\ i \in DOMAIN sessions'
        /\ sessions'[i].questionId = sessions[i].questionId
        /\ Len(sessions'[i].questionsHistory) >= Len(sessions[i].questionsHistory)
        /\ \A k \in DOMAIN sessions[i].questionsHistory :
              sessions'[i].questionsHistory[k] = sessions[i].questionsHistory[k]

\* a submit in flight is accepted whatever was broadcast since it resolved
\* its question, and is recorded against the question it resolved
RecordedAsResolved ==
    \A s \in Slots :
        (/\ procs[s].op = "submit" /\ procs[s].pc = "insert"
         /\ ~HasSubmission(procs[s].sid, procs[s].qid, procs[s].user)
         /\ SubmitInsert(s))
        => /\ last'.http = 200
           /\ submissions'[Len(submissions')].questionId = procs[s].qid
           /\ procs[s].qid \in
                 (IF procs[s].session.sessionType = "class"
                  THEN {procs[s].session.activeQuestionId}
                  ELSE {procs[s].session.questionId})

\* C15: a submit that resolved a question before a concurrent broadcast of
\* another one is accepted and recorded against the question it resolved;
\* in every reachable state each Submission of a class session references
\* a question of that session's questionsHistory, whose entries are never
\* removed or rewritten, and each Submission of a single session
\* references the session's fixed question.
C15_SubmissionInHistory ==
    /\ []SubmissionsInScope
    /\ [][HistoryKept /\ RecordedAsResolved]_vars

\* a submit resolved the question then active, another question was
\* broadcast while it was in flight, and it was accepted
C15_Witness ==
    /\ last.op = "submit" /\ last.http = 200
    /\ sessions[last.sid].sessionType = "class"
    /\ sessions[last.sid].activeQuestionId \notin {NullId, last.qid}
    /\ \E k \in DOMAIN submissions :
          /\ submissions[k].quizSessionId = last.sid
          /\ submissions[k].questionId = last.qid

\* C16: join is idempotent per student: whatever joins were made, the
\* concurrent joins of one student included, studentsJoined of a session
\* has at most one entry per email.
C16_JoinIdempotent ==
    \A i \in DOMAIN sessions :
        \A j, k \in DOMAIN sessions[i].studentsJoined :
            sessions[i].studentsJoined[j].email
                = sessions[i].studentsJoined[k].email => j = k

\* the activations of question q: the single sessions created with it and
\* the broadcasts of it
Activations(q) ==
    Cardinality({i \in DOMAIN sessions :
                    sessions[i].sessionType = "single"
                        /\ sessions[i].questionId = q})
    + Cardinality({ik \in (DOMAIN sessions) \X (1..MaxRequests) :
                    /\ ik[2] \in DOMAIN sessions[ik[1]].questionsHistory
                    /\ sessions[ik[1]].questionsHistory[ik[2]].questionId = q})

\* C17: markUsed exactly once per activation: with no request in flight,
\* timesUsed of a question equals the number of its activations, whether
\* or not activations by different sessions overlapped.
C17_UsedOncePerActivation ==
    procs = <<>> => \A q \in Questions : questions[q].timesUsed = Activations(q)

\* the step leaves what poll must not touch as it was
PollTouchesNothing ==
    /\ UNCHANGED <<questions, submissions>>
    /\ DOMAIN sessions' = DOMAIN sessions
    /\ \A i \in DOMAIN sessions :
          /\ sessions'[i].studentsJoined = sessions[i].studentsJoined
          /\ sessions'[i].activeQuestionId = sessions[i].activeQuestionId
          /\ sessions'[i].questionsHistory = sessions[i].questionsHistory

\* C18: poll is read-only: neither step of a poll changes studentsJoined,
\* activeQuestionId or questionsHistory of a session, the reservation and
\* usage fields of a question, or the stored Submissions.
C18_PollReadOnly ==
    [][/\ \A u \in Students, c \in CodeInputs :
             Poll(u, c) => PollTouchesNothing
       /\ \A s \in Slots : PollView(s) => PollTouchesNothing]_vars

\* a poll of a class session with an active question has gone through both
\* of its reads and has been answered with the question or the submitted view
C18_Witness ==
    /\ last.op = "poll" /\ last.http = 200
    /\ last.body \in {"active", "submitted"}
    /\ sessions[last.sid].activeQuestionId # NullId

\* the question a loaded session document has live
LiveIn(doc) ==
    IF doc.sessionType = "single" THEN doc.questionId ELSE doc.activeQuestionId

\* the student has a Submission for question q of session i
Answered(i, q, email) ==
    \E k \in DOMAIN submissions :
        /\ submissions[k].quizSessionId = i
        /\ submissions[k].questionId = q
        /\ submissions[k].studentEmail = email

\* the step answers the join or poll in slot s
Answers(s) ==
    /\ procs[s].op \in {"join", "poll"}
    /\ Len(procs') = Len(procs) - 1
    /\ last'.op = procs[s].op
    /\ last'.user = procs[s].user
    /\ last'.sid = procs[s].sid
    /\ procs' = Drop(s)

\* a join or poll of a student who has answered the question that was
\* live when the request loaded the session is answered without a question
\* payload: 409 for a single session, the submitted view for a class one
NoSecondLook ==
    \A s \in Slots :
        (Answers(s) /\ Answered(procs[s].sid, LiveIn(procs[s].session),
                                procs[s].user))
        => /\ last'.qid = NullId
           /\ last'.http # 410 =>
                 IF procs[s].session.sessionType = "single"
                 THEN last'.http = 409 /\ last'.body = "alreadySubmitted"
                 ELSE last'.http = 200 /\ last'.body \in {"submitted", "waiting"}

\* the question payload of a join or poll is the question that was live
\* when the request loaded the session
PayloadIsLive ==
    \A s \in Slots :
        (Answers(s) /\ last'.qid # NullId)
        => last'.qid = LiveIn(procs[s].session)

\* a join or poll that is answered by its first step carries no payload
NoPayloadAtOnce ==
    (started' = started + 1 /\ last'.op \in {"join", "poll"})
        => last'.qid = NullId

\* C19: once a student has a Submission for the question active in a
\* session, every later join or poll of that student is answered without
\* a question payload (class: the submitted view; single: the
\* already-submitted conflict) until a different question is broadcast.
C19_NoPayloadAfterSubmit ==
    [][NoSecondLook /\ PayloadIsLive /\ NoPayloadAtOnce]_vars

\* a student who answered the active question of a class session has
\* polled or joined it again and was shown the submitted view
C19_Witness ==
    /\ last.op \in {"join", "poll"}
    /\ last.http = 200 /\ last.body = "submitted" /\ last.qid = NullId
    /\ Answered(last.sid, sessions[last.sid].activeQuestionId, last.user)

\* response r carries no correctness, correct index or explanation
AnswerFree(r) ==
    ~r.isCorrect /\ r.correctAnswer = NoAnswer /\ r.explanation = ""

\* every response but the 200 of a submit is free of the answer: those of
\* join and poll, with or without question payload, and those of a submit
\* refused 400, 404, 409 or 410
OnlySubmitReveals ==
    ~(last.op = "submit" /\ last.http = 200) => AnswerFree(last)

\* the 200 of a submit goes to the student whose Submission this step
\* stores and reveals the answer of the question of that Submission
RevealedToSubmitter ==
    (last'.op = "submit" /\ last'.http = 200) =>
        /\ Len(submissions') = Len(submissions) + 1
        /\ submissions'[Len(submissions')].studentEmail = last'.user
        /\ submissions'[Len(submissions')].questionId = last'.qid
        /\ last'.correctAnswer = CorrectAnswer(last'.qid)
        /\ last'.explanation = Explanation(last'.qid)

ForbiddenOrAdmitted ==
    \A u \in Users \cup Admins, i \in DOMAIN sessions :
        Results(u, i) =>
            IF u # sessions[i].createdBy /\ u \notin Admins
            THEN /\ last'.op = "results" /\ last'.http = 403
                 /\ UNCHANGED <<sessions, questions, submissions, procs>>
            ELSE /\ Admitted.op = "results" /\ Admitted.sid = i
                 /\ last' = NoResp

\* the Submissions stored for session i
StoredFor(i) == {k \in DOMAIN submissions : submissions[k].quizSessionId = i}

\* the 200 of results: the counts add up to the number of Submissions
\* stored for the session, and the list is those Submissions, each once,
\* in submittedAt order
ResultsConsistent ==
    (last.op = "results" /\ last.http = 200) =>
        LET r == last.results
            n == Cardinality(StoredFor(last.sid))
        IN  /\ r.totalSubmissions = n
            /\ r.correctCount + r.incorrectCount = n
            /\ r.correctCount =
                  Cardinality({k \in StoredFor(last.sid) : submissions[k].isCorrect})
            /\ Len(r.submissions) = n
            /\ \A k \in StoredFor(last.sid) :
                  Cardinality({j \in DOMAIN r.submissions :
                                  r.submissions[j] = submissions[k]}) = 1
            /\ \A j, k \in DOMAIN r.submissions :
                  j < k => r.submissions[j].submittedAt
                              <= r.submissions[k].submittedAt

\* C21: results is refused with Forbidden for every requester who is
\* neither the session's creator nor an admin; for the creator or an admin
\* it returns totalSubmissions = correctCount + incorrectCount = the number
\* of Submissions stored for the session when it reads them, and lists
\* them in submittedAt order.
C21_ResultsGuardedAndConsistent ==
    /\ [][ForbiddenOrAdmitted]_vars
    /\ []ResultsConsistent

\* an admin who did not create the session was given its results, two
\* Submissions of which the one stored second was stamped first
C21_Witness ==
    /\ last.op = "results" /\ last.http = 200
    /\ last.user \in Admins /\ last.user # sessions[last.sid].createdBy
    /\ Len(submissions) = 2
    /\ submissions[2].submittedAt < submissions[1].submittedAt
    /\ last.results.submissions = <<submissions[2], submissions[1]>>

\* the step refuses a create for its duration: nothing is stored, no
\* handler goes on to allocate a code, no question is touched
RefusedForDuration ==
    /\ last'.op \in {"create-single", "create-class"}
    /\ last'.http = 400
    /\ UNCHANGED <<sessions, questions, submissions, procs>>

\* a create-single is refused for its duration iff the duration is outside
\* 30..600, a create-class iff it is outside 1800..10800; a create-single
\* that is not refused goes on to the allocator unless its question is
\* unknown, a create-class always does
DurationChecked ==
    /\ \A u \in Creators, q \in QuestionInputs, d \in EdgeSingleDurations :
          CreateSingle(u, q, d) =>
              IF d >= 30 /\ d <= 600
              THEN /\ last'.http # 400
                   /\ q \in Questions =>
                         (Admitted.op = "create-single" /\ Admitted.dur = d)
              ELSE RefusedForDuration
    /\ \A u \in Creators, d \in EdgeClassDurations :
          CreateClass(u, d) =>
              IF d >= 1800 /\ d <= 10800
              THEN Admitted.op = "create-class" /\ Admitted.dur = d
              ELSE RefusedForDuration

\* every stored session has a duration within the bounds of its type
DurationsInBounds ==
    \A i \in DOMAIN sessions :
        IF sessions[i].sessionType = "single"
        THEN sessions[i].duration >= 30 /\ sessions[i].duration <= 600
        ELSE sessions[i].duration >= 1800 /\ sessions[i].duration <= 10800

SessionTypes ==
    \A i \in DOMAIN sessions :
        IF sessions[i].sessionType = "single"
        THEN /\ sessions[i].questionId \in Questions
             /\ sessions[i].status \in {"active", "expired"}
        ELSE /\ sessions[i].sessionType = "class"
             /\ sessions[i].status \in {"waiting", "active", "expired"}
             /\ sessions[i].status = "waiting"
                   <=> (/\ sessions[i].questionsHistory = <<>>
                        /\ sessions[i].status # "expired")
             /\ sessions[i].status = "active"
                   => sessions[i].activeQuestionId # NullId

\* a session is stored active with its question (single) or waiting with
\* no active question and no history (class), and keeps its type and its
\* fixed question
SessionsBorn ==
    /\ Len(sessions') >= Len(sessions)
    /\ \A i \in DOMAIN sessions :
          /\ sessions'[i].sessionType = sessions[i].sessionType
          /\ sessions'[i].questionId = sessions[i].questionId
    /\ \A i \in DOMAIN sessions' \ DOMAIN sessions :
          IF sessions'[i].sessionType = "single"
          THEN sessions'[i].status = "active"
          ELSE /\ sessions'[i].status = "waiting"
               /\ sessions'[i].activeQuestionId = NullId
               /\ sessions'[i].questionsHistory = <<>>

\* C23: in every reachable state a single session has one fixed question,
\* which never changes, and is never waiting (active from creation); a
\* class session is created waiting with no active question and an empty
\* questionsHistory, is waiting iff no broadcast into it has been saved and
\* it is not expired, and has an active question whenever it is active.
C23_TypeInvariant ==
    /\ []SessionTypes
    /\ [][SessionsBorn]_vars

\* a class session is active with the question broadcast into it, and a
\* single session is stored
C23_Witness ==
    /\ \E i \in DOMAIN sessions :
          /\ sessions[i].sessionType = "class"
          /\ sessions[i].status = "active"
          /\ sessions[i].questionsHistory # <<>>
    /\ \E i \in DOMAIN sessions : sessions[i].sessionType = "single"

\* the step answers with the given status and changes no session, no
\* question and no Submission
Untouched(op, http) ==
    /\ last'.op = op /\ last'.http = http
    /\ UNCHANGED <<sessions, questions, submissions>>

\* the refusals of broadcast and end
BroadcastEndRefusals ==
    /\ \A u \in Users, c \in CodeInputs, q \in QuestionInputs :
          (Broadcast(u, c, q) /\ FindByCode(c) # NullId) =>
              LET doc == sessions[FindByCode(c)]
              IN  /\ doc.sessionType # "class" => Untouched("broadcast", 400)
                  /\ (doc.sessionType = "class" /\ doc.createdBy # u)
                        => Untouched("broadcast", 403)
                  /\ UNCHANGED <<sessions, questions, submissions>>
    /\ \A s \in Slots :
          (LoadQuestion(s) /\ procs[s].qid \notin Questions)
              => Untouched("broadcast", 404)
    /\ \A u \in Users, c \in CodeInputs :
          (EndClass(u, c) /\ FindByCode(c) # NullId) =>
              /\ sessions[FindByCode(c)].createdBy # u => Untouched("end", 403)
              /\ UNCHANGED <<sessions, questions, submissions>>

\* a broadcast or end that was refused at once leaves no handler behind
RefusedAtOnce ==
    (started' = started + 1 /\ last'.op \in {"broadcast", "end"}
        /\ last'.http \in {400, 403, 404})
    => UNCHANGED <<sessions, questions, submissions, procs>>

\* C24: a rejected broadcast or end changes nothing: broadcast into a
\* single session is refused with WrongType, broadcast or end by a caller
\* who is not the creator with NotOwner, broadcast of an unknown question
\* with NotFound, and in each case status, activeQuestionId and
\* questionsHistory of the session and the reservation and usage fields
\* of every question are as they were.
C24_RejectedChangesNothing ==
    [][BroadcastEndRefusals /\ RefusedAtOnce]_vars

\* a broadcast of an unknown question into a class session that has an
\* active question has been refused, and the question is still reserved
C24_Witness ==
    /\ last.op = "broadcast" /\ last.http = 404 /\ last.sid # NullId
    /\ sessions[last.sid].activeQuestionId # NullId
    /\ ReservedBy(sessions[last.sid].activeQuestionId, last.sid)

\* the question in scope of a submit
SubmitScope ==
    \A u \in Students, c \in CodeInputs, o \in OptionInputs :
        (Submit(u, c, o) /\ FindByCode(c) # NullId) =>
            LET doc == sessions[FindByCode(c)]
            IN  /\ (doc.sessionType = "class" /\ doc.activeQuestionId = NullId) =>
                      /\ last'.op = "submit" /\ last'.http \in {400, 410}
                      /\ UNCHANGED <<submissions, procs>>
                      /\ (o \in {0, 1, 2, 3} /\ now <= doc.expiresAt)
                            => last'.body = "No active question"
                /\ doc.sessionType = "single" =>
                      /\ last'.body # "No active question"
                      /\ (o \in {0, 1, 2, 3} /\ now <= doc.expiresAt) =>
                            /\ Admitted.op = "submit"
                            /\ Admitted.qid = doc.questionId

\* C25: a submit to a class session that has no active question (none was
\* broadcast yet) is refused with NoActiveQuestion and stores no
\* Submission; a submit to a single session resolves the session's fixed
\* questionId.
C25_QuestionInScope ==
    [][SubmitScope]_vars

\* a submit to a class session before its first broadcast has been refused
\* for want of an active question
C25_Witness ==
    /\ last.op = "submit" /\ last.http = 400
    /\ last.body = "No active question"
    /\ sessions[last.sid].sessionType = "class"
    /\ sessions[last.sid].questionsHistory = <<>>

\* C26: a Submission is immutable once created: no step of any handler
\* (submit and its retries, broadcast, end, join, poll, results), no expiry
\* and no sweep changes a field of a stored Submission or deletes it; the
\* Submissions only grow.
C26_SubmissionImmutable ==
    [][/\ Len(submissions') >= Len(submissions)
       /\ \A k \in DOMAIN submissions : submissions'[k] = submissions[k]]_vars

\* a Submission is stored, a retry of its submit has been refused, and the
\* session has been expired since
C26_Witness ==
    /\ submissions # <<>>
    /\ sessions[submissions[1].quizSessionId].status = "expired"
    /\ last.op = "submit" /\ last.http = 409

Max(S) == CHOOSE x \in S : \A y \in S : x >= y

\* when the question q a submit found live in the session document doc was
\* activated: startedAt of a single session, broadcastedAt of the latest
\* entry of q in questionsHistory of a class session
ActivatedAt(doc, q) ==
    IF doc.sessionType = "single" THEN doc.startedAt
    ELSE LET hits == {k \in DOMAIN doc.questionsHistory :
                         doc.questionsHistory[k].questionId = q}
         IN  IF hits = {} THEN doc.startedAt
             ELSE doc.questionsHistory[Max(hits)].broadcastedAt

\* the Submission a submit stores has timeTaken = the seconds from the
\* activation of its question to the submit
TimeFromActivation ==
    \A s \in Slots :
        (SubmitInsert(s) /\ last'.http = 200) =>
            LET new == submissions'[Len(submissions')]
            IN  new.timeTaken
                    = new.submittedAt - ActivatedAt(procs[s].session, procs[s].qid)

\* timeTaken of every Submission is within the duration of its session
TimeWithinDuration ==
    \A k \in DOMAIN submissions :
        /\ submissions[k].timeTaken >= 0
        /\ submissions[k].timeTaken
              <= sessions[submissions[k].quizSessionId].duration

\* C27: timeTaken of a Submission is the whole number of seconds from the
\* activation of the answered question to the submit (single: from
\* startedAt; class: from broadcastedAt of the questionsHistory entry of
\* the broadcast that made the question currently active, also when the
\* question was broadcast more than once), and so 0 <= timeTaken <=
\* duration for every Submission.
C27_TimeTaken ==
    /\ [][TimeFromActivation]_vars
    /\ []TimeWithinDuration

\* what an observation at the present time makes of the stored status of
\* session i: expired if the session is not expired and isExpired holds
Observed(i) ==
    IF sessions[i].status # "expired" /\ IsExpired(sessions[i], now)
    THEN "expired" ELSE sessions[i].status

\* C28: the sweep applies the expiry rule of lazy observation: one run of
\* cleanupExpiredQuizzes sets status expired for exactly the sessions an
\* observation at that time would expire (every session, waiting or
\* active, that is not expired and for which isExpired holds) and changes
\* no other session.
C28_SweepIsObserve ==
    [][CleanupExpiredQuizzes =>
          /\ DOMAIN sessions' = DOMAIN sessions
          /\ \A i \in DOMAIN sessions :
                sessions'[i] = [sessions[i] EXCEPT !.status = Observed(i)]]_vars

\* C29: a reservation does not outlive its session: in every state in
\* which the stored status of a session is expired, through end or through
\* lazy expiry, no question is reserved by it, so every question that is
\* not live in a session that is not expired is among the available ones.
C29_ReservationEndsWithSession ==
    /\ \A i \in DOMAIN sessions :
          sessions[i].status = "expired"
              => \A q \in Questions : ~ReservedBy(q, i)
    /\ \A q \in Questions :
          (\A i \in DOMAIN sessions :
              sessions[i].status # "expired" => LiveQuestion(i) # q)
          => q \in GetAvailableForCourse

\* C30: an ended session accepts nothing further: a submit received while
\* the stored status of its session is expired is refused with Expired and
\* stores no Submission, and a join received then is refused with Expired,
\* adds no student and returns no question, also before expiresAt.
C30_EndedAcceptsNothing ==
    [][/\ \A u \in Students, c \in CodeInputs, o \in {0, 1, 2, 3} :
             (/\ Submit(u, c, o)
              /\ FindByCode(c) # NullId
              /\ sessions[FindByCode(c)].status = "expired")
             => /\ last'.op = "submit" /\ last'.http = 410
                /\ UNCHANGED <<submissions, procs>>
       /\ \A u \in Students, c \in CodeInputs :
             (/\ Join(u, c)
              /\ FindByCode(c) # NullId
              /\ sessions[FindByCode(c)].status = "expired")
             => Admitted.op = "join" /\ Admitted.pc = "expire"]_vars

====
